---- MODULE Spec2Model ----
(***************************************************************************)
(* A model of the LegiScan API client of src/legiscan.py.                  *)
(*                                                                         *)
(* Strings are sequences of tokens: a literal of the source is one token,  *)
(* caller-supplied text is one token per character, and string             *)
(* concatenation / str.format is \o.  Python values that reach the client  *)
(* as arguments are tagged records (None, an int, a str, or an argument    *)
(* the caller left out).  A call of a method is one action: it validates   *)
(* its arguments, builds the URL, performs the HTTP request, decodes and   *)
(* unwraps the response, and leaves the outcome of the call in the         *)
(* variables.                                                              *)
(***************************************************************************)
EXTENDS Integers, Sequences, FiniteSets, TLC

VARIABLES
    client,   \* "none" before __init__, "ready" once self.key is set
    key,      \* self.key
    method,   \* the method of the last call ("" before any call)
    args,     \* the arguments of the last call
    url,      \* the URL the last call built (<<>> if it built none)
    nreq,     \* the number of requests.get calls the last call made
    resp,     \* the HTTP response the last call received
    exc,      \* the exception the last call raised ("none" if it returned)
    msg,      \* the message of that exception
    ret,      \* the value the last call returned
    data,     \* the method's local `data` when the last call returned
    environ,  \* os.environ['LEGISCAN_API_KEY'] (None when it is not set)
    calls     \* the number of method calls made on the client so far

vars ==
    <<client, key, method, args, url, nreq, resp, exc, msg, ret, data, environ, calls>>

----------------------------------------------------------------------------
(* Bounds of the model *)

\* longest list of item records (bills, search results) in a response
MaxItems == 2

\* most method calls made on one client
MaxCalls == 2

----------------------------------------------------------------------------
(* Python values *)

None == [t |-> "None", s |-> <<>>, n |-> 0]
Omitted == [t |-> "omitted", s |-> <<>>, n |-> 0]
PyStr(s) == [t |-> "str", s |-> s, n |-> 0]
PyInt(n) == [t |-> "int", s |-> <<>>, n |-> n]

IsNone(v) == v.t = "None"

\* isinstance(v, int)
IsInt(v) == v.t = "int"

RECURSIVE Decimal(_)
\* the decimal digits of a natural number
Decimal(n) ==
    IF n < 10
    THEN <<CASE n = 0 -> "0" [] n = 1 -> "1" [] n = 2 -> "2" [] n = 3 -> "3"
             [] n = 4 -> "4" [] n = 5 -> "5" [] n = 6 -> "6" [] n = 7 -> "7"
             [] n = 8 -> "8" [] OTHER -> "9">>
    ELSE Decimal(n \div 10) \o Decimal(n % 10)

\* str(v), as urlencode and str.format apply it
Str(v) ==
    CASE v.t = "None" -> <<"N", "o", "n", "e">>
      [] v.t = "int" -> IF v.n < 0 THEN <<"-">> \o Decimal(-v.n) ELSE Decimal(v.n)
      [] OTHER -> v.s

RECURSIVE Strip(_)
\* str.strip(): leading and trailing whitespace removed
Strip(s) ==
    IF s = <<>> THEN s
    ELSE IF Head(s) = " " THEN Strip(Tail(s))
    ELSE IF s[Len(s)] = " " THEN Strip(SubSeq(s, 1, Len(s) - 1))
    ELSE s

----------------------------------------------------------------------------
(* URL construction *)

\* quote_plus of one character, over the characters of the model
QuoteChar(c) ==
    CASE c = " " -> <<"+">>
      [] c = "&" -> <<"%", "2", "6">>
      [] c = "=" -> <<"%", "3", "D">>
      [] OTHER -> <<c>>

RECURSIVE QuotePlus(_)
QuotePlus(s) ==
    IF s = <<>> THEN <<>> ELSE QuoteChar(Head(s)) \o QuotePlus(Tail(s))

RECURSIVE UrlEncodeUnquoted(_)
\* the parameters joined without quoting their values
UrlEncodeUnquoted(params) ==
    IF params = <<>> THEN <<>>
    ELSE LET p == Head(params)
             one == <<p[1], "=">> \o Str(p[2])
         IN  IF Len(params) = 1 THEN one
             ELSE one \o <<"&">> \o UrlEncodeUnquoted(Tail(params))

RECURSIVE UrlEncode(_)
\* urlencode of a dict, given as the sequence of its <<key, value>> items in
\* insertion order
UrlEncode(params) ==
    IF params = <<>> THEN <<>>
    ELSE LET p == Head(params)
             one == <<p[1], "=">> \o QuotePlus(Str(p[2]))
         IN  IF Len(params) = 1 THEN one
             ELSE one \o <<"&">> \o UrlEncode(Tail(params))

BASE_URL(k, operation, params) ==
    <<"https://api.legiscan.com/?key=">> \o k \o <<"&op=", operation, "&">> \o params

\* LegiScan._url, called with a dict
Url(k, operation, params) == BASE_URL(k, operation, UrlEncode(params))

----------------------------------------------------------------------------
(* HTTP responses.  The server answers in the LegiScan wire format: a JSON  *)
(* object with a status field, an alert.message when the status is ERROR,  *)
(* and otherwise the payload of the operation under the operation's key.   *)
(* A response the transport reports as failed carries the server's reason  *)
(* phrase and a body the client never reads.                               *)
(* A decoded JSON object is a function from its keys; an object whose      *)
(* order matters (the masterlist) is the sequence of its <<key, value>>    *)
(* items in insertion order.                                               *)

NoValue == [has |-> FALSE, v |-> <<>>]
Value(x) == [has |-> TRUE, v |-> x]

ServerMessages == {<<"Invalid API key">>, <<"Unknown id">>}

ErrData(m) == [status |-> "ERROR", alert |-> [message |-> m]]
OkData(k, payload) == (k :> payload) @@ [status |-> "OK"]

\* responses requests.get can produce whatever the operation: the transport
\* reports a failure, or the API reports an error
TransportFailures ==
    {[ok |-> FALSE, status_code |-> 404, reason |-> <<"Not Found">>,
      data |-> ErrData(<<"Unknown id">>)],
     [ok |-> FALSE, status_code |-> 500, reason |-> <<"Internal Server Error">>,
      data |-> ErrData(<<"Internal error">>)]}
ApiErrors ==
    {[ok |-> TRUE, status_code |-> 200, reason |-> <<"OK">>, data |-> ErrData(m)] :
        m \in ServerMessages}
Failures == TransportFailures \cup ApiErrors

OkResponses(k, payloads) ==
    {[ok |-> TRUE, status_code |-> 200, reason |-> <<"OK">>, data |-> OkData(k, p)] :
        p \in payloads}

\* payloads the client passes through unread
Opaque == {<<"record", 1>>, <<"record", 2>>}

\* masterlist mappings: a session record and up to MaxItems bills, in any
\* insertion order
MasterKeys(n) == {"session"} \cup {Decimal(i)[1] : i \in 0 .. n - 1}
MasterValue(k) == IF k = "session" THEN <<"session", 7>> ELSE <<"bill", k>>
MasterLists ==
    UNION {{[i \in 1 .. n + 1 |-> <<f[i], MasterValue(f[i])>>] :
               f \in {g \in [1 .. n + 1 -> MasterKeys(n)] :
                         \A i, j \in 1 .. n + 1 : g[i] = g[j] => i = j}} :
           n \in 0 .. MaxItems}

\* relevance scores of the item records of a search response
Relevances == {49, 50}
ResultLists ==
    UNION {{[i \in 1 .. n |-> [bill_id |-> i, relevance |-> f[i]]] :
               f \in [1 .. n -> Relevances]} : n \in 0 .. MaxItems}
SearchResults ==
    {[summary |-> [count |-> Len(l)], results |-> l] : l \in ResultLists}

----------------------------------------------------------------------------
(* LegiScan._get *)

\* _get with the status compared against a sentinel the API never sends
GetWrongSentinel(u, r) ==
    IF ~r.ok
    THEN [exc |-> "LegiScanError",
          msg |-> <<"Request returned ">> \o Decimal(r.status_code) \o <<": ">> \o u,
          nreq |-> 1, data |-> NoValue]
    ELSE IF r.data.status = "error"
    THEN [exc |-> "LegiScanError", msg |-> r.data.alert.message,
          nreq |-> 1, data |-> NoValue]
    ELSE [exc |-> "none", msg |-> <<>>, nreq |-> 1, data |-> Value(r.data)]

\* _get asking once more when the transport reports a failure
GetRetryOnce(u, r) ==
    IF ~r.ok
    THEN [exc |-> "LegiScanError",
          msg |-> <<"Request returned ">> \o Decimal(r.status_code) \o <<": ">> \o u,
          nreq |-> 2, data |-> NoValue]
    ELSE IF r.data.status = "ERROR"
    THEN [exc |-> "LegiScanError", msg |-> r.data.alert.message,
          nreq |-> 1, data |-> NoValue]
    ELSE [exc |-> "none", msg |-> <<>>, nreq |-> 1, data |-> Value(r.data)]

\* _get raising the API error with the status in place of the alert's message
GetStatusAsMessage(u, r) ==
    IF ~r.ok
    THEN [exc |-> "LegiScanError",
          msg |-> <<"Request returned ">> \o Decimal(r.status_code) \o <<": ">> \o u,
          nreq |-> 1, data |-> NoValue]
    ELSE IF r.data.status = "ERROR"
    THEN [exc |-> "LegiScanError", msg |-> <<r.data.status>>,
          nreq |-> 1, data |-> NoValue]
    ELSE [exc |-> "none", msg |-> <<>>, nreq |-> 1, data |-> Value(r.data)]

Get(u, r) ==
    IF ~r.ok
    THEN [exc |-> "LegiScanError",
          msg |-> <<"Request returned ">> \o Decimal(r.status_code) \o <<": ">> \o u,
          nreq |-> 1, data |-> NoValue]
    ELSE IF r.data.status = "ERROR"
    THEN [exc |-> "LegiScanError", msg |-> r.data.alert.message,
          nreq |-> 1, data |-> NoValue]
    ELSE [exc |-> "none", msg |-> <<>>, nreq |-> 1, data |-> Value(r.data)]

----------------------------------------------------------------------------
(* Outcomes of a call *)

NoResponse == [ok |-> FALSE, status_code |-> 0, reason |-> <<>>, data |-> <<>>]

\* the call raised before it built a URL
RaiseEarly(e, m) ==
    [exc |-> e, msg |-> m, url |-> <<>>, nreq |-> 0, used |-> FALSE,
     ret |-> NoValue, data |-> NoValue]

\* _get raised
RaiseFrom(g, u) ==
    [exc |-> g.exc, msg |-> g.msg, url |-> u, nreq |-> g.nreq, used |-> TRUE,
     ret |-> NoValue, data |-> NoValue]

\* a subscript d[k] raised KeyError after _get returned
RaiseKeyError(g, u, k) ==
    [exc |-> "KeyError", msg |-> <<k>>, url |-> u, nreq |-> g.nreq, used |-> TRUE,
     ret |-> NoValue, data |-> NoValue]

\* the call returned v; d is the method's local `data` when it returns
Return(g, u, v, d) ==
    [exc |-> "none", msg |-> <<>>, url |-> u, nreq |-> g.nreq, used |-> TRUE,
     ret |-> Value(v), data |-> Value(d)]

Args(apikey, state, session_id, id, bill_number, query, year, page, relevance, key_) ==
    [apikey |-> apikey, state |-> state, session_id |-> session_id, id |-> id,
     bill_number |-> bill_number, query |-> query, year |-> year, page |-> page,
     relevance |-> relevance, access_key |-> key_]

\* the state a call leaves: `used` tells whether the call reached _get, and
\* so whether it received r
Finish(m, a, r, o) ==
    /\ calls < MaxCalls
    /\ calls' = calls + 1
    /\ method' = m
    /\ args' = a
    /\ url' = o.url
    /\ nreq' = o.nreq
    /\ resp' = IF o.used THEN r ELSE NoResponse
    /\ exc' = o.exc
    /\ msg' = o.msg
    /\ ret' = o.ret
    /\ data' = o.data
    /\ UNCHANGED <<client, key, environ>>

----------------------------------------------------------------------------
(* The methods.  Each operator is the method's body: k is self.key, r the  *)
(* response requests.get gives if the method reaches _get.                 *)

\* url = self._url(operation, {param: ident}); data = self._get(url);
\* return data[payloadKey] -- the body shared by the single-identifier methods
Fetch(k, operation, params, payloadKey, r) ==
    LET u == Url(k, operation, params)
        g == Get(u, r)
    IN  IF g.exc # "none" THEN RaiseFrom(g, u)
        ELSE IF payloadKey \notin DOMAIN g.data.v THEN RaiseKeyError(g, u, payloadKey)
        ELSE Return(g, u, g.data.v[payloadKey], g.data.v)

get_session_list(k, state, r) ==
    IF ~IsNone(state)
    THEN Fetch(k, "getSessionList", <<<<"state", state>>>>, "sessions", r)
    ELSE RaiseEarly("ValueError", <<"Must specify state to get session list.">>)

\* pop taken to remove the first item, as if the session always came first
WithoutFirst(items, k) == Tail(items)

\* dict.pop(k) on an insertion-ordered mapping: the items left, in order
RECURSIVE Without(_, _)
Without(items, k) ==
    IF items = <<>> THEN <<>>
    ELSE IF Head(items)[1] = k THEN Without(Tail(items), k)
    ELSE <<Head(items)>> \o Without(Tail(items), k)

\* items[k]
Lookup(items, k) ==
    LET i == CHOOSE i \in 1 .. Len(items) : items[i][1] = k IN items[i][2]

\* [b for b in items.values()]
Values(items) == [i \in 1 .. Len(items) |-> items[i][2]]

\* session = data['masterlist'].pop('session');
\* return {'session': session, 'bills': [b for b in data['masterlist'].values()]}
MasterList(k, operation, params, r) ==
    LET u == Url(k, operation, params)
        g == Get(u, r)
    IN  IF g.exc # "none" THEN RaiseFrom(g, u)
        ELSE IF "masterlist" \notin DOMAIN g.data.v
        THEN RaiseKeyError(g, u, "masterlist")
        ELSE IF \A i \in 1 .. Len(g.data.v["masterlist"]) :
                    g.data.v["masterlist"][i][1] # "session"
        THEN RaiseKeyError(g, u, "session")
        ELSE LET session == Lookup(g.data.v["masterlist"], "session")
                 left == Without(g.data.v["masterlist"], "session")
             IN  Return(g, u, [session |-> session, bills |-> Values(left)],
                        [g.data.v EXCEPT !["masterlist"] = left])

\* get_master_list with the session identifier sent under the name `state`
get_master_list_state_for_id(k, state, session_id, r) ==
    IF ~IsNone(state)
    THEN MasterList(k, "getMasterList", <<<<"state", state>>>>, r)
    ELSE IF ~IsNone(session_id)
    THEN MasterList(k, "getMasterList", <<<<"state", session_id>>>>, r)
    ELSE RaiseEarly("ValueError", <<"Must specify session identifier or state.">>)

get_master_list(k, state, session_id, r) ==
    IF ~IsNone(state)
    THEN MasterList(k, "getMasterList", <<<<"state", state>>>>, r)
    ELSE IF ~IsNone(session_id)
    THEN MasterList(k, "getMasterList", <<<<"id", session_id>>>>, r)
    ELSE RaiseEarly("ValueError", <<"Must specify session identifier or state.">>)

get_master_list_raw(k, state, session_id, r) ==
    IF ~IsNone(state)
    THEN MasterList(k, "getMasterListRaw", <<<<"state", state>>>>, r)
    ELSE IF ~IsNone(session_id)
    THEN MasterList(k, "getMasterListRaw", <<<<"id", session_id>>>>, r)
    ELSE RaiseEarly("ValueError", <<"Must specify session identifier or state.">>)

get_bill(k, bill_id, r) ==
    IF ~IsNone(bill_id)
    THEN Fetch(k, "getBill", <<<<"id", bill_id>>>>, "bill", r)
    ELSE RaiseEarly("ValueError", <<"Must specify id.">>)

get_bill_text(k, doc_id, r) ==
    IF ~IsNone(doc_id)
    THEN Fetch(k, "getBillText", <<<<"id", doc_id>>>>, "text", r)
    ELSE RaiseEarly("ValueError", <<"Must specify doc_id to retrieve bill text.">>)

get_amendment(k, amendment_id, r) ==
    IF ~IsNone(amendment_id)
    THEN Fetch(k, "getAmendment", <<<<"id", amendment_id>>>>, "amendment", r)
    ELSE RaiseEarly("ValueError", <<"Must specify an amendment ID.">>)

get_supplement(k, supplement_id, r) ==
    IF ~IsNone(supplement_id)
    THEN Fetch(k, "getSupplement", <<<<"id", supplement_id>>>>, "supplement", r)
    ELSE RaiseEarly("ValueError", <<"Must specify a supplement ID.">>)

get_roll_call(k, roll_call_id, r) ==
    IF ~IsNone(roll_call_id)
    THEN Fetch(k, "getRollcall", <<<<"id", roll_call_id>>>>, "roll_call", r)
    ELSE RaiseEarly("ValueError",
                    <<"Must specify roll_call_id to retrieve rollcall vote.">>)

get_person(k, people_id, r) ==
    IF ~IsNone(people_id)
    THEN Fetch(k, "getPerson", <<<<"people_id", people_id>>>>, "person", r)
    ELSE RaiseEarly("ValueError",
                    <<"Must specify people_id to retrieve people record.">>)

\* a lookup in place of the pop: the dict keeps the key
PoppedNothing(d, k) == d

\* the dict d without key k (what dict.pop leaves)
Popped(d, k) == [x \in DOMAIN d \ {k} |-> d[x]]

\* a call that leaves out the positional parameter `state` never enters the body
MissingState ==
    RaiseEarly("TypeError", <<"missing 1 required positional argument: 'state'">>)

\* the key of the search response a call reads and the response lacks ("" if
\* none): data = ...['searchresult'], data.pop('summary'), data['results']
SearchMissing(d) ==
    IF "searchresult" \notin DOMAIN d THEN "searchresult"
    ELSE IF "summary" \notin DOMAIN d["searchresult"] THEN "summary"
    ELSE IF "results" \notin DOMAIN d["searchresult"] THEN "results"
    ELSE ""

\* [r for r in results]
Copy(results) == [i \in 1 .. Len(results) |-> results[i]]

search(k, state, bill_number, query, year, page, r) ==
    IF state = Omitted THEN MissingState
    ELSE IF IsNone(bill_number) /\ IsNone(query)
    THEN RaiseEarly("ValueError", <<"Must specify bill_number or query.">>)
    ELSE LET params == IF ~IsNone(bill_number)
                       THEN <<<<"state", state>>, <<"bill", bill_number>>>>
                       ELSE <<<<"state", state>>, <<"query", query>>,
                              <<"year", year>>, <<"page", page>>>>
             u == Url(k, "search", params)
             g == Get(u, r)
         IN  IF g.exc # "none" THEN RaiseFrom(g, u)
             ELSE IF SearchMissing(g.data.v) # ""
             THEN RaiseKeyError(g, u, SearchMissing(g.data.v))
             ELSE LET summary == g.data.v["searchresult"]["summary"]
                      left == Popped(g.data.v["searchresult"], "summary")
                  IN  Return(g, u,
                             [summary |-> summary, results |-> Copy(left["results"])],
                             left)

\* the filter with a strict comparison
RelevantStrict(item, relevance) == item.relevance > relevance.n

\* r['relevance'] >= relevance
Relevant(item, relevance) == item.relevance >= relevance.n

\* not isinstance(relevance, int) or relevance > 100 or relevance < 0
BadRelevance(relevance) ==
    ~IsInt(relevance) \/ relevance.n > 100 \/ relevance.n < 0

\* [r for r in results if r['relevance'] >= relevance]
Filter(results, relevance) ==
    SelectSeq(results, LAMBDA item : Relevant(item, relevance))

search_raw(k, state, query, year, page, relevance, r) ==
    IF state = Omitted THEN MissingState
    ELSE IF IsNone(query)
    THEN RaiseEarly("ValueError", <<"Must specify query parameters for bill search.">>)
    ELSE IF BadRelevance(relevance)
    THEN RaiseEarly("ValueError",
                    <<"Must specify valid value for relevance (integer 0-100).">>)
    ELSE LET params == <<<<"state", state>>, <<"query", query>>, <<"year", year>>,
                         <<"page", page>>>>
             u == Url(k, "searchRaw", params)
             g == Get(u, r)
         IN  IF g.exc # "none" THEN RaiseFrom(g, u)
             ELSE IF SearchMissing(g.data.v) # ""
             THEN RaiseKeyError(g, u, SearchMissing(g.data.v))
             ELSE LET summary == g.data.v["searchresult"]["summary"]
                      left == Popped(g.data.v["searchresult"], "summary")
                  IN  IF ~IsNone(relevance)
                      THEN Return(g, u,
                                  [summary |-> summary,
                                   results |-> Filter(left["results"], relevance)],
                                  left)
                      ELSE Return(g, u,
                                  [summary |-> summary,
                                   results |-> Copy(left["results"])],
                                  left)

get_dataset_list(k, state, year, r) ==
    Fetch(k, "getDatasetList", <<<<"state", state>>, <<"year", year>>>>,
          "datasetlist", r)

get_dataset(k, session_id, access_key, r) ==
    IF IsNone(session_id) \/ IsNone(access_key)
    THEN RaiseEarly("ValueError",
                    <<"Must specify session_id and access_key to access dataset.">>)
    ELSE Fetch(k, "getDataset", <<<<"id", session_id>>, <<"access_key", access_key>>>>,
               "dataset", r)

get_session_people(k, session_id, r) ==
    IF ~IsNone(session_id)
    THEN Fetch(k, "getSessionPeople", <<<<"session_id", session_id>>>>,
               "sessionpeople", r)
    ELSE RaiseEarly("ValueError",
                    <<"Must specify a session_id to get list of people.">>)

get_sponsored_list(k, people_id, r) ==
    IF ~IsNone(people_id)
    THEN Fetch(k, "getSponsoredList", <<<<"people_id", people_id>>>>,
               "sponsoredbills", r)
    ELSE RaiseEarly("ValueError",
                    <<"Must specify a people_id to get a list of bills sponsored.">>)

----------------------------------------------------------------------------
(* Arguments the callers pass *)

States == {None, PyStr(<<"I", "L">>)}
Ids == {None, PyInt(12), PyStr(<<"7">>)}
BillNumbers == {None, PyStr(<<"H", "B", " ", "1">>)}
Queries == {None, PyStr(<<"a", " ", "&", "b">>)}
\* year of a search: the default of the parameter
SearchYears == {PyInt(2)}
Years == {None, PyInt(2019)}
Pages == {None, PyInt(1)}
RelevanceArgs ==
    {None, PyInt(-1), PyInt(0), PyInt(50), PyInt(100), PyInt(101), PyStr(<<"5", "0">>)}
AccessKeys == {None, PyStr(<<"x", "=", "y">>)}
ApiKeys == {None, PyStr(<<" ", "k", " ">>)}
Environs == {None, PyStr(<<"e">>)}

\* the arguments of a call, the ones a method does not take left None
NoArgs == Args(None, None, None, None, None, None, None, None, None, None)

----------------------------------------------------------------------------
(* Actions *)

\* the responses requests.get may give a call: the request is made only if the
\* call reaches _get, which `early`, its outcome were no response to come, tells
Answers(early, responses) == IF early.used THEN responses ELSE {NoResponse}

Init ==
    /\ client = "none"
    /\ key = <<>>
    /\ method = ""
    /\ args = NoArgs
    /\ url = <<>>
    /\ nreq = 0
    /\ resp = NoResponse
    /\ exc = "none"
    /\ msg = <<>>
    /\ ret = NoValue
    /\ data = NoValue
    /\ environ \in Environs
    /\ calls = 0

\* __init__ reading the environment first and the argument only without it
ConstructEnvFirst ==
    \E apikey \in ApiKeys :
        LET fromArg == IsNone(environ)
            missing == fromArg /\ IsNone(apikey)
            chosen == IF fromArg THEN apikey ELSE environ
        IN  /\ client = "none"
            /\ method' = "__init__"
            /\ args' = [NoArgs EXCEPT !.apikey = apikey]
            /\ client' = IF missing THEN "none" ELSE "ready"
            /\ key' = IF missing THEN key ELSE Strip(chosen.s)
            /\ exc' = IF missing THEN "KeyError" ELSE "none"
            /\ msg' = IF missing THEN <<"LEGISCAN_API_KEY">> ELSE <<>>
            /\ url' = <<>>
            /\ nreq' = 0
            /\ resp' = NoResponse
            /\ ret' = NoValue
            /\ data' = NoValue
            /\ UNCHANGED <<environ, calls>>

\* LegiScan.__init__
Construct ==
    \E apikey \in ApiKeys :
        LET fromEnv == IsNone(apikey)
            missing == fromEnv /\ IsNone(environ)
            chosen == IF fromEnv THEN environ ELSE apikey
        IN  /\ client = "none"
            /\ method' = "__init__"
            /\ args' = [NoArgs EXCEPT !.apikey = apikey]
            /\ client' = IF missing THEN "none" ELSE "ready"
            /\ key' = IF missing THEN key ELSE Strip(chosen.s)
            /\ exc' = IF missing THEN "KeyError" ELSE "none"
            /\ msg' = IF missing THEN <<"LEGISCAN_API_KEY">> ELSE <<>>
            /\ url' = <<>>
            /\ nreq' = 0
            /\ resp' = NoResponse
            /\ ret' = NoValue
            /\ data' = NoValue
            /\ UNCHANGED <<environ, calls>>

GetSessionList ==
    \E state \in States :
        /\ client = "ready"
        /\ \E r \in Answers(get_session_list(key, state, NoResponse),
                          Failures \cup OkResponses("sessions", Opaque)) :
               Finish("get_session_list",
                      [NoArgs EXCEPT !.state = state],
                      r, get_session_list(key, state, r))

GetMasterList ==
    \E state \in States, session_id \in Ids :
        /\ client = "ready"
        /\ \E r \in Answers(get_master_list(key, state, session_id, NoResponse),
                          Failures \cup OkResponses("masterlist", MasterLists)) :
               Finish("get_master_list",
                      [NoArgs EXCEPT !.state = state, !.session_id = session_id],
                      r, get_master_list(key, state, session_id, r))

GetMasterListRaw ==
    \E state \in States, session_id \in Ids :
        /\ client = "ready"
        /\ \E r \in Answers(get_master_list_raw(key, state, session_id, NoResponse),
                          Failures \cup OkResponses("masterlist", MasterLists)) :
               Finish("get_master_list_raw",
                      [NoArgs EXCEPT !.state = state, !.session_id = session_id],
                      r, get_master_list_raw(key, state, session_id, r))

GetBill ==
    \E bill_id \in Ids :
        /\ client = "ready"
        /\ \E r \in Answers(get_bill(key, bill_id, NoResponse),
                          Failures \cup OkResponses("bill", Opaque)) :
               Finish("get_bill",
                      [NoArgs EXCEPT !.id = bill_id],
                      r, get_bill(key, bill_id, r))

GetBillText ==
    \E doc_id \in Ids :
        /\ client = "ready"
        /\ \E r \in Answers(get_bill_text(key, doc_id, NoResponse),
                          Failures \cup OkResponses("text", Opaque)) :
               Finish("get_bill_text",
                      [NoArgs EXCEPT !.id = doc_id],
                      r, get_bill_text(key, doc_id, r))

GetAmendment ==
    \E amendment_id \in Ids :
        /\ client = "ready"
        /\ \E r \in Answers(get_amendment(key, amendment_id, NoResponse),
                          Failures \cup OkResponses("amendment", Opaque)) :
               Finish("get_amendment",
                      [NoArgs EXCEPT !.id = amendment_id],
                      r, get_amendment(key, amendment_id, r))

GetSupplement ==
    \E supplement_id \in Ids :
        /\ client = "ready"
        /\ \E r \in Answers(get_supplement(key, supplement_id, NoResponse),
                          Failures \cup OkResponses("supplement", Opaque)) :
               Finish("get_supplement",
                      [NoArgs EXCEPT !.id = supplement_id],
                      r, get_supplement(key, supplement_id, r))

GetRollCall ==
    \E roll_call_id \in Ids :
        /\ client = "ready"
        /\ \E r \in Answers(get_roll_call(key, roll_call_id, NoResponse),
                          Failures \cup OkResponses("roll_call", Opaque)) :
               Finish("get_roll_call",
                      [NoArgs EXCEPT !.id = roll_call_id],
                      r, get_roll_call(key, roll_call_id, r))

GetPerson ==
    \E people_id \in Ids :
        /\ client = "ready"
        /\ \E r \in Answers(get_person(key, people_id, NoResponse),
                          Failures \cup OkResponses("person", Opaque)) :
               Finish("get_person",
                      [NoArgs EXCEPT !.id = people_id],
                      r, get_person(key, people_id, r))

Search ==
    \E state \in States \cup {Omitted}, bill_number \in BillNumbers,
       query \in Queries, year \in SearchYears, page \in Pages :
        /\ client = "ready"
        /\ \E r \in Answers(search(key, state, bill_number, query, year, page,
                                 NoResponse),
                          Failures \cup OkResponses("searchresult", SearchResults)) :
               Finish("search",
                      [NoArgs EXCEPT !.state = state, !.bill_number = bill_number,
                                     !.query = query, !.year = year, !.page = page],
                      r, search(key, state, bill_number, query, year, page, r))

SearchRaw ==
    \E state \in States \cup {Omitted}, query \in Queries, year \in SearchYears,
       page \in Pages, relevance \in RelevanceArgs :
        /\ client = "ready"
        /\ \E r \in Answers(search_raw(key, state, query, year, page, relevance,
                                     NoResponse),
                          Failures \cup OkResponses("searchresult", SearchResults)) :
               Finish("search_raw",
                      [NoArgs EXCEPT !.state = state, !.query = query, !.year = year,
                                     !.page = page, !.relevance = relevance],
                      r, search_raw(key, state, query, year, page, relevance, r))

GetDatasetList ==
    \E state \in States, year \in Years :
        /\ client = "ready"
        /\ \E r \in Answers(get_dataset_list(key, state, year, NoResponse),
                          Failures \cup OkResponses("datasetlist", Opaque)) :
               Finish("get_dataset_list",
                      [NoArgs EXCEPT !.state = state, !.year = year],
                      r, get_dataset_list(key, state, year, r))

GetDataset ==
    \E session_id \in Ids, access_key \in AccessKeys :
        /\ client = "ready"
        /\ \E r \in Answers(get_dataset(key, session_id, access_key, NoResponse),
                          Failures \cup OkResponses("dataset", Opaque)) :
               Finish("get_dataset",
                      [NoArgs EXCEPT !.session_id = session_id, !.access_key = access_key],
                      r, get_dataset(key, session_id, access_key, r))

GetSessionPeople ==
    \E session_id \in Ids :
        /\ client = "ready"
        /\ \E r \in Answers(get_session_people(key, session_id, NoResponse),
                          Failures \cup OkResponses("sessionpeople", Opaque)) :
               Finish("get_session_people",
                      [NoArgs EXCEPT !.session_id = session_id],
                      r, get_session_people(key, session_id, r))

GetSponsoredList ==
    \E people_id \in Ids :
        /\ client = "ready"
        /\ \E r \in Answers(get_sponsored_list(key, people_id, NoResponse),
                          Failures \cup OkResponses("sponsoredbills", Opaque)) :
               Finish("get_sponsored_list",
                      [NoArgs EXCEPT !.id = people_id],
                      r, get_sponsored_list(key, people_id, r))

Next ==
    \/ Construct
    \/ GetSessionList
    \/ GetMasterList
    \/ GetMasterListRaw
    \/ GetBill
    \/ GetBillText
    \/ GetAmendment
    \/ GetSupplement
    \/ GetRollCall
    \/ GetPerson
    \/ Search
    \/ SearchRaw
    \/ GetDatasetList
    \/ GetDataset
    \/ GetSessionPeople
    \/ GetSponsoredList

Spec == Init /\ [][Next]_vars

----------------------------------------------------------------------------
(* Properties *)

\* the method calls (every method but the constructor)
Operations ==
    {"get_session_list", "get_master_list", "get_master_list_raw", "get_bill",
     "get_bill_text", "get_amendment", "get_supplement", "get_roll_call",
     "get_person", "search", "search_raw", "get_dataset_list", "get_dataset",
     "get_session_people", "get_sponsored_list"}

\* the URL of an operation: the base URL with the key, the operation and the
\* encoded parameters
UrlOf(operation, encoded) ==
    <<"https://api.legiscan.com/?key=">> \o key \o <<"&op=", operation, "&">> \o encoded

\* C1: get_master_list and get_master_list_raw called with neither state nor
\* session_id raise ValueError and build no URL; called with state alone they
\* build the URL of getMasterList / getMasterListRaw whose only parameter is
\* state=<state>; called with session_id alone, the URL whose only parameter is
\* id=<session_id>.
C1_MasterListIdentifier ==
    method \in {"get_master_list", "get_master_list_raw"} =>
        LET op == IF method = "get_master_list"
                  THEN "getMasterList" ELSE "getMasterListRaw"
        IN  /\ (IsNone(args.state) /\ IsNone(args.session_id)) =>
                   (exc = "ValueError" /\ url = <<>>)
            /\ (~IsNone(args.state) /\ IsNone(args.session_id)) =>
                   /\ exc # "ValueError"
                   /\ url = UrlOf(op, <<"state", "=">> \o QuotePlus(Str(args.state)))
            /\ (IsNone(args.state) /\ ~IsNone(args.session_id)) =>
                   /\ exc # "ValueError"
                   /\ url = UrlOf(op, <<"id", "=">> \o QuotePlus(Str(args.session_id)))

\* a master list was asked for by session identifier alone
C1_Witness ==
    /\ method = "get_master_list"
    /\ IsNone(args.state)
    /\ args.session_id = PyInt(12)
    /\ url = UrlOf("getMasterList", <<"id", "=", "1", "2">>)

\* the call received a response that is a transport failure or an API error
ResponseFailed == ~resp.ok \/ resp.data.status = "ERROR"

\* C2: a call whose response is not an HTTP success, or whose payload has the
\* status ERROR, raises LegiScanError and returns no data; a call whose response
\* is neither, and a call that makes no request, does not raise LegiScanError.
C2_ApiErrorRaised ==
    method \in Operations =>
        IF nreq > 0
        THEN /\ ResponseFailed => (exc = "LegiScanError" /\ ~ret.has /\ ~data.has)
             /\ ~ResponseFailed => exc # "LegiScanError"
        ELSE exc # "LegiScanError"

\* an HTTP success whose payload reports an error made the call raise
C2_Witness ==
    /\ method = "get_bill"
    /\ resp.ok
    /\ resp.data.status = "ERROR"
    /\ exc = "LegiScanError"
    /\ ~ret.has

\* C3: search_raw with an integer threshold T in 0..100 returns only results of
\* relevance >= T, returns every result of the response of relevance >= T, and
\* keeps the results in the order of the response.
C3_RelevanceFilter ==
    (/\ method = "search_raw"
     /\ IsInt(args.relevance)
     /\ args.relevance.n \in 0 .. 100
     /\ exc = "none") =>
        LET T == args.relevance.n
            input == resp.data.searchresult.results
            out == ret.v.results
        IN  /\ \A i \in 1 .. Len(out) : out[i].relevance >= T
            /\ \A j \in 1 .. Len(input) :
                   input[j].relevance >= T => \E i \in 1 .. Len(out) : out[i] = input[j]
            /\ \A i \in 1 .. Len(out) :
                   /\ out[i].bill_id \in 1 .. Len(input)
                   /\ input[out[i].bill_id] = out[i]
            /\ \A i, j \in 1 .. Len(out) : i < j => out[i].bill_id < out[j].bill_id

\* a raw search kept a result at the threshold and dropped one below it
C3_Witness ==
    /\ method = "search_raw"
    /\ exc = "none"
    /\ args.relevance = PyInt(50)
    /\ Len(resp.data.searchresult.results) = 2
    /\ Len(ret.v.results) = 1
    /\ ret.v.results[1].relevance = 50

\* an argument the caller supplied: neither left out nor None
Present(v) == v.t \notin {"None", "omitted"}

\* the results of the response the last call received
ResponseResults == resp.data.searchresult.results

\* C4: search_raw called with a state and a query and with relevance left unset
\* raises no input-validation error and, when the request succeeds, returns all
\* the results of the response.
C4_RelevanceOptional ==
    (/\ method = "search_raw"
     /\ Present(args.state)
     /\ Present(args.query)
     /\ IsNone(args.relevance)) =>
        /\ exc # "ValueError"
        /\ nreq = 1
        /\ ~ResponseFailed => (exc = "none" /\ ret.v.results = ResponseResults)

\* the methods C5 names
Validating ==
    {"get_session_list", "get_bill", "get_bill_text", "get_amendment",
     "get_supplement", "get_roll_call", "get_person", "get_session_people",
     "get_sponsored_list", "get_dataset", "search", "search_raw"}

\* the identifiers the method of the last call requires are all present.  An
\* identifier is missing when the caller leaves it out: a parameter with the
\* default None is then None, the positional state of search and search_raw is
\* then left out of the call.
RequiredPresent ==
    CASE method = "get_session_list" -> Present(args.state)
      [] method = "get_session_people" -> Present(args.session_id)
      [] method = "get_dataset" -> Present(args.session_id) /\ Present(args.access_key)
      [] method = "search" ->
            args.state # Omitted /\ (Present(args.bill_number) \/ Present(args.query))
      [] method = "search_raw" -> args.state # Omitted /\ Present(args.query)
      [] OTHER -> Present(args.id)

\* the relevance of the last call is unset, or a threshold in range
RelevanceInRange ==
    IsNone(args.relevance) \/ (IsInt(args.relevance) /\ args.relevance.n \in 0 .. 100)

\* the last call was rejected before its body asked for anything
InputRejected == exc \in {"ValueError", "TypeError"}

\* C5: each of these methods rejects a call that misses a required identifier
\* (with ValueError; a call without the positional state is rejected by the
\* signature); a call whose required identifiers are all present, and whose
\* relevance is not out of range, raises no input-validation error.
C5_RequiredIdentifiers ==
    method \in Validating =>
        /\ ~RequiredPresent => InputRejected
        /\ (~RequiredPresent /\ args.state # Omitted) => exc = "ValueError"
        /\ (RequiredPresent /\ RelevanceInRange) => ~InputRejected

\* C6: a call makes at most one HTTP request: none when its input is rejected
\* (a missing identifier, a relevance outside 0..100), and exactly one otherwise,
\* whether the request succeeds, the transport fails or the API reports an error.
C6_OneRequest ==
    method \in Operations =>
        /\ nreq <= 1
        /\ InputRejected => nreq = 0
        /\ ~InputRejected => nreq = 1
        /\ (method = "search_raw" /\ IsInt(args.relevance)
                /\ args.relevance.n \notin 0 .. 100) => nreq = 0
        /\ (nreq = 1 /\ ResponseFailed) => exc = "LegiScanError"

\* a failed request was made once and not again
C6_Witness ==
    /\ method = "get_dataset"
    /\ ~resp.ok
    /\ exc = "LegiScanError"
    /\ nreq = 1

\* C7: get_master_list and get_master_list_raw return the session record of the
\* masterlist under 'session' and, under 'bills', every other entry of the
\* masterlist exactly once, in the insertion order of the mapping, the session
\* record not among them.
C7_MasterListUnwrap ==
    (method \in {"get_master_list", "get_master_list_raw"} /\ exc = "none") =>
        LET ml == resp.data.masterlist
            bills == ret.v.bills
            at == CHOOSE i \in 1 .. Len(ml) : ml[i][1] = "session"
        IN  /\ ret.v.session = ml[at][2]
            /\ Len(bills) = Len(ml) - 1
            /\ \A i \in 1 .. Len(ml) :
                   i # at => bills[IF i < at THEN i ELSE i - 1] = ml[i][2]
            /\ \A p \in 1 .. Len(bills) : bills[p] # ml[at][2]

\* a master list whose session record came last among three entries
C7_Witness ==
    /\ method = "get_master_list"
    /\ exc = "none"
    /\ Len(resp.data.masterlist) = 3
    /\ resp.data.masterlist[3][1] = "session"
    /\ Len(ret.v.bills) = 2

\* C8 as stated: search and search_raw return the summary apart from the
\* results, and one result for every item record of the response, in response
\* order.
C8_OneResultPerItem ==
    (method \in {"search", "search_raw"} /\ exc = "none") =>
        /\ ret.v.summary = resp.data.searchresult.summary
        /\ "summary" \notin DOMAIN data.v
        /\ ret.v.results = ResponseResults

RECURSIVE AtOrAbove(_, _)
\* the items of relevance at least T, in order
AtOrAbove(items, T) ==
    IF items = <<>> THEN <<>>
    ELSE IF Head(items).relevance >= T
    THEN <<Head(items)>> \o AtOrAbove(Tail(items), T)
    ELSE AtOrAbove(Tail(items), T)

\* C8, amended: search and search_raw remove the summary from the searchresult
\* mapping and return it under 'summary'; 'results' holds item records only, in
\* response order: for search every item record of the response, for search_raw
\* the item records whose relevance is at least the threshold.
C8_SummarySeparated ==
    (method \in {"search", "search_raw"} /\ exc = "none") =>
        /\ ret.v.summary = resp.data.searchresult.summary
        /\ DOMAIN data.v = {"results"}
        /\ data.v.results = ResponseResults
        /\ DOMAIN ret.v = {"summary", "results"}
        /\ ret.v.results = IF method = "search" THEN ResponseResults
                           ELSE AtOrAbove(ResponseResults, args.relevance.n)

\* a search returned the two item records of its response and their summary
C8_Witness ==
    /\ method = "search"
    /\ exc = "none"
    /\ Len(ResponseResults) = 2
    /\ Len(ret.v.results) = 2
    /\ ret.v.summary = [count |-> 2]

\* text is a part of the message m
Carries(m, text) ==
    \E i \in 1 .. Len(m) - Len(text) + 1 : SubSeq(m, i, i + Len(text) - 1) = text

\* C9 as stated: a LegiScanError carries the message the server supplied, be it
\* raised for a transport failure or for an API error.
C9_ServerMessage ==
    (method \in Operations /\ exc = "LegiScanError") =>
        \/ Carries(msg, resp.data.alert.message)
        \/ Carries(msg, resp.reason)

\* C9, amended: a LegiScanError raised for a payload whose status is ERROR
\* carries the message of the payload's alert; one raised for a transport
\* failure carries the HTTP status code and the URL of the request.
C9_ErrorMessage ==
    (method \in Operations /\ exc = "LegiScanError") =>
        IF resp.ok
        THEN msg = resp.data.alert.message
        ELSE msg = <<"Request returned ">> \o Decimal(resp.status_code)
                       \o <<": ">> \o url

\* an API error was raised with the server's message
C9_Witness ==
    /\ method = "get_person"
    /\ exc = "LegiScanError"
    /\ resp.ok
    /\ msg = <<"Unknown id">>

\* the API operation a method asks for
OperationOf(m) ==
    CASE m = "get_session_list" -> "getSessionList"
      [] m = "get_master_list" -> "getMasterList"
      [] m = "get_master_list_raw" -> "getMasterListRaw"
      [] m = "get_bill" -> "getBill"
      [] m = "get_bill_text" -> "getBillText"
      [] m = "get_amendment" -> "getAmendment"
      [] m = "get_supplement" -> "getSupplement"
      [] m = "get_roll_call" -> "getRollcall"
      [] m = "get_person" -> "getPerson"
      [] m = "search" -> "search"
      [] m = "search_raw" -> "searchRaw"
      [] m = "get_dataset_list" -> "getDatasetList"
      [] m = "get_dataset" -> "getDataset"
      [] m = "get_session_people" -> "getSessionPeople"
      [] m = "get_sponsored_list" -> "getSponsoredList"

\* q is a URL-encoded parameter string: name=value pairs joined by &, no
\* character of a value left unquoted
Encoded(q) ==
    /\ q # <<>>
    /\ \A i \in 1 .. Len(q) : q[i] # " "
    /\ Cardinality({i \in 1 .. Len(q) : q[i] = "="})
           = Cardinality({i \in 1 .. Len(q) : q[i] = "&"}) + 1
    /\ \A i \in 1 .. Len(q) :
           q[i] = "&" => (i + 2 <= Len(q) /\ q[i + 1] \notin {"&", "="} /\ q[i + 2] = "=")
    /\ Len(q) >= 2 /\ q[1] \notin {"&", "="} /\ q[2] = "="

\* u is the base URL with key k, the operation of method m and encoded
\* parameters
WellFormed(u, k, m) ==
    LET head == <<"https://api.legiscan.com/?key=">> \o k \o <<"&op=", OperationOf(m), "&">>
    IN  /\ Len(u) > Len(head)
        /\ SubSeq(u, 1, Len(head)) = head
        /\ Encoded(SubSeq(u, Len(head) + 1, Len(u)))

\* C10: no call changes the key of the client; a call that repeats the method
\* and arguments of the call before it builds the same URL; and every URL a
\* call builds is the base URL with the key, op=<operation> and the URL-encoded
\* parameters.
C10_DeterministicUrl ==
    [][(client = "ready" =>
            /\ client' = "ready"
            /\ key' = key
            /\ (method' \in Operations /\ url' # <<>>) => WellFormed(url', key, method')
            /\ (method' = method /\ args' = args) => url' = url)]_vars

\* a second call on the client built the URL of a search by query
C10_Witness ==
    /\ calls = 2
    /\ method = "search"
    /\ IsNone(args.bill_number)
    /\ Present(args.query)
    /\ WellFormed(url, key, "search")

\* s without the spaces around it, and with none to strip left
Trimmed(s, t) ==
    /\ t = <<>> \/ (t[1] # " " /\ t[Len(t)] # " ")
    /\ \E i \in 1 .. Len(s) - Len(t) + 1 :
           /\ SubSeq(s, i, i + Len(t) - 1) = t
           /\ \A j \in 1 .. Len(s) : (j < i \/ j >= i + Len(t)) => s[j] = " "

\* C11: constructing a client takes the key from the constructor argument when
\* one is given, and otherwise from the environment variable LEGISCAN_API_KEY
\* (the key is that text with the surrounding whitespace stripped); when there
\* is neither, the construction raises (KeyError) and no client is created: no
\* key is set and no method is ever called.
C11_KeySource ==
    /\ client = "none" => (key = <<>> /\ calls = 0)
    /\ method = "__init__" =>
           IF Present(args.apikey)
           THEN client = "ready" /\ exc = "none" /\ Trimmed(args.apikey.s, key)
           ELSE IF Present(environ)
           THEN client = "ready" /\ exc = "none" /\ Trimmed(environ.s, key)
           ELSE client = "none" /\ exc = "KeyError"

\* a client built without an argument took its key from the environment
C11_Witness ==
    /\ method = "__init__"
    /\ IsNone(args.apikey)
    /\ client = "ready"
    /\ key = <<"e">>

\* the URL u has a parameter called name
HasParam(u, name) ==
    \E i \in 2 .. Len(u) - 1 : u[i - 1] = "&" /\ u[i] = name /\ u[i + 1] = "="

\* the URL u has a parameter whose value is the text None
HasNoneValue(u) ==
    \E i \in 1 .. Len(u) - 4 :
        /\ u[i] = "="
        /\ SubSeq(u, i + 1, i + 4) = <<"N", "o", "n", "e">>
        /\ (i + 4 = Len(u) \/ u[i + 5] = "&")

\* C12: the URL of a call has no parameter for an optional argument the caller
\* left unset -- state or year of get_dataset_list, page of a search or
\* search_raw by query -- and so no parameter with the value None for it.
C12_NoUnsetParameter ==
    url # <<>> =>
        /\ method = "get_dataset_list" =>
               /\ IsNone(args.state) => ~HasParam(url, "state")
               /\ IsNone(args.year) => ~HasParam(url, "year")
               /\ (IsNone(args.state) \/ IsNone(args.year)) => ~HasNoneValue(url)
        /\ (method \in {"search", "search_raw"} /\ IsNone(args.page)) =>
               ~HasParam(url, "page")

====
